---- MODULE Spec2Model ----
(***************************************************************************)
(* The turtle-graphics drawing coordinator of introcs (introcs/turtle):    *)
(* the Window with its command queue, the asynchronous Tkinter context     *)
(* (_AsyncContext, the worker-thread platform) and the animation protocol  *)
(* of the drawing tools (_DrawTool, Turtle, Pen).                          *)
(*                                                                         *)
(* Granularity: one action per critical section (a `with self._lock`       *)
(* block) or per unsynchronised shared read; the application threads and   *)
(* the Tk thread interleave between them.  Coordinates are integers on     *)
(* the x axis (heading 0, so cos = 1 and sin = 0 exactly): Python's float  *)
(* rounding of other headings is not modelled.                             *)
(***************************************************************************)
EXTENDS Integers, Sequences, FiniteSets, TLC

VARIABLES win, tool, thr, ctx, tk, gh

vars == <<win, tool, thr, ctx, tk, gh>>

\* ------------------------------------------------------------------ bounds
\* Calls one application thread may start.
MaxCalls == 2
\* Calls of Window.flush(), Window.clear(), Window.dispose() and of a
\* property setter made by the main thread.
MaxWinOps == 2
\* Calls of the tool, and animation steps of one call, in the animation
\* specification.
MaxLineCalls == 1
MaxSteps == 40

\* ------------------------------------------------------------------ sets
Windows == {"w1"}
\* Every Window object of the program: w2 is the second window of the
\* specifications that build more than one.
AllWindows == {"w1", "w2"}
Tools   == {"k1", "k2"}
Threads == {"t1", "t2"}
None    == "None"

\* The tool each application thread owns and drives.
ToolOf(t) == IF t = "t1" THEN "k1" ELSE "k2"

\* Inputs of the interleaving specification.
Speeds  == {0, 1}
Dists   == {0, 2}
\* Inputs of the animation specification: every speed, and the distances
\* that take at most MaxSteps animation steps at the tool's speed.
LineSpeeds == 0 .. 10
LineDists  == {1, 16, 17, 100, 600}

\* ------------------------------------------------------------------ helpers
Max(a, b) == IF a > b THEN a ELSE b
Min(a, b) == IF a < b THEN a ELSE b

\* math.ceil(a / b) for integers a >= 0, b > 0.
Ceil(a, b) == (a + b - 1) \div b

RECURSIVE Pow2(_)
Pow2(n) == IF n = 0 THEN 1 ELSE 2 * Pow2(n - 1)

\* ------------------------------------------------------------------ state
\* A queued operation (an element of Window._commands): `kind` is the
\* callable, `key` the tool it names and `n` the number of history entries
\* a delete removes.  Bookkeeping: `id` numbers the pushes in the order
\* they were appended, `i` is the operation's place in its push and `of`
\* the number of operations of that push.
Op(id, kind, key, n) ==
    [id |-> id, kind |-> kind, key |-> key, n |-> n, i |-> 0, of |-> 0]

\* The operations of one push, numbered.
Numbered(ops) == [j \in 1 .. Len(ops) |-> [ops[j] EXCEPT !.i = j, !.of = Len(ops)]]

\* Window.__init__ followed by _AsyncContext._pack: an allocated window.
\*   tkwindow  : self._window is set (the Toplevel exists)
\*   drawtool  : the keys of self._drawtool (= the keys of self._history)
\*   icons     : the tools whose refs[2] holds a canvas image
\*   history   : self._history, the primitives drawn by each tool
\*   active    : self._active, set by _pack
\*   held      : the application holds a reference to the Window object
NewWindow ==
    [ tkwindow  |-> TRUE,
      active    |-> TRUE,
      held      |-> TRUE,
      drawtool  |-> {},
      icons     |-> {},
      history   |-> [k \in Tools |-> << >>],
      commands  |-> << >>,
      adjusts   |-> << >>,
      refreshed |-> FALSE,
      clear     |-> FALSE ]

\* A Window object whose constructor has not run.
NoWindow == [NewWindow EXCEPT !.tkwindow = FALSE, !.active = FALSE]

\* Window._register: the tool joins the registry with an empty history.
register(w, k) ==
    [w EXCEPT !.drawtool = @ \cup {k}, !.history[k] = << >>]

\* _DrawTool.__init__ (Turtle.__init__ / Pen.__init__): a tool at the origin,
\* visible, attached to window `w` (`screen` is the constructor's argument).
\* `cls` is the concrete class.
NewTool(w, cls, speed) ==
    [ window  |-> w,
      screen  |-> w,
      cls     |-> cls,
      x       |-> 0,
      speed   |-> speed,
      visible |-> TRUE,
      isdown  |-> TRUE,
      heading |-> 0,
      \* Pen._solid and Pen._shist (the x coordinates of the fill's vertices)
      solid   |-> FALSE,
      shist   |-> << >> ]

\* A tool whose constructor has not run.
NoTool == NewTool(None, "none", 10)

\* An application thread that is not inside a call.
IdleThread ==
    [ pc |-> "idle", call |-> "none", phase |-> "none", result |-> "none",
      \* the push in progress (arguments of Window._draw_* / _queue_command)
      pw |-> None, pkey |-> None, pkind |-> "none", picon |-> FALSE,
      pblock |-> FALSE, prb |-> 0, pnoicon |-> FALSE, pnokey |-> FALSE,
      pcn |-> 0, pend |-> 0,
      \* the animation loop of _follow_line / _follow_arc
      step |-> 0, stepcnt |-> 0, perstep |-> 0, len |-> 0, from |-> 0,
      dir |-> 1, target |-> 0,
      \* bookkeeping of the push in progress: its id, the number of its
      \* operations, how many of them a drain has executed, and whether
      \* Window.dispose() had been called when the push was issued
      pid |-> 0, pof |-> 0, pdone |-> 0, pafter |-> FALSE,
      \* bookkeeping of the latest call: the pushes it has appended and the
      \* tool's speed when it began
      npush |-> 0, cspeed |-> 0 ]

\* _AsyncContext.__init__ plus the first allocations: the worker runs and
\* the windows of `ws` (a sequence, the dict's insertion order) are packed.
\*   window    : the keys of self._window
\*   delete    : self._delete
\*   create    : self._create
\*   bkgd      : self._bkgd is set
\*   inst      : the number of _AsyncContext objects created so far
\*   lingering : the stopped workers whose main loop has not quit yet
\*   orphans   : the running workers self._bkgd no longer refers to
NewContext(ws) ==
    [ window |-> ws, delete |-> << >>, create |-> << >>, bkgd |-> TRUE,
      inst |-> 1, lingering |-> 0, orphans |-> 0 ]

\* The class attribute _INSTANCE is None and no worker has been started.
NoContext ==
    [ window |-> << >>, delete |-> << >>, create |-> << >>, bkgd |-> FALSE,
      inst |-> 0, lingering |-> 0, orphans |-> 0 ]

\* The Tk thread at position `pc` of a tick, with the windows `todo` still
\* to update.  Inside Window._tk_update of window `w` (pc "drain", "adjust"
\* or "adjusted"), `rest` holds the operations the loop of line 922 has not
\* reached yet, `raised` the number of operations of this drain that raised
\* and `nadj` the records the loop of line 926 has applied.
TkAt(pc, todo) ==
    [ pc |-> pc, todo |-> todo, w |-> None, rest |-> << >>, raised |-> 0,
      nadj |-> 0 ]

\* The Tk thread between two polls.
NewTk == TkAt("idle", << >>)

\* Bookkeeping that is not program state.
\*   npush    : the number of pushes appended so far (the last push id)
\*   batch    : the operations the latest drain of the tick in progress
\*              executed, in order
\*   maxout   : the largest push id that has left a queue in a tick
\*   fifo     : every drain so far executed its pushes in the order they
\*              were appended, all of them newer than any push that had
\*              left the queue before
\*   calls    : the number of calls the application threads have made
\*   winops   : the number of calls the main thread has made
NewGhost ==
    [ npush |-> 0, batch |-> << >>, maxout |-> 0, fifo |-> TRUE,
      calls |-> 0, winops |-> 0 ]

TypeOK ==
    /\ DOMAIN win = AllWindows
    /\ DOMAIN tool = Tools
    /\ DOMAIN thr = Threads
    /\ \A t \in Threads : thr[t].pc \in
          {"idle", "check", "append", "flush", "poll", "wflush",
           "newctx", "ret", "alloc", "spawn", "create", "wait", "split"}
    /\ tk.pc \in {"idle", "update", "drain", "adjusted", "pack", "packed",
                 "stopped", "dead", "deadlock"}

\* ------------------------------------------------------------------ queue
SeqRange(s) == {s[i] : i \in 1 .. Len(s)}
IdsOf(cmds) == {cmds[i].id : i \in 1 .. Len(cmds)}

\* The largest push id in a sequence of operations, at least m.
RECURSIVE MaxId(_, _)
MaxId(cmds, m) ==
    IF cmds = << >> THEN m ELSE MaxId(Tail(cmds), Max(m, Head(cmds).id))

\* A sequence of operations in non-decreasing push order.
Sorted(cmds) == \A i \in 1 .. Len(cmds) - 1 : cmds[i].id <= cmds[i + 1].id

\* The drawing callables of the toolkit (tk.Canvas.create_*).
Primitives ==
    {"create_line", "create_arc", "create_oval", "create_rectangle", "create_polygon"}

\* The canvas call behind each Window._draw_* method ("none": _draw_icon
\* passes cmd = None).
CmdOf(kind) ==
    CASE kind = "icon"      -> "none"
      [] kind = "line"      -> "create_line"
      [] kind = "arc"       -> "create_arc"
      [] kind = "oval"      -> "create_oval"
      [] kind = "rectangle" -> "create_rectangle"
      [] kind = "polygon"   -> "create_polygon"
      [] OTHER              -> kind

\* A variant of queue_command that appends the new icon before the
\* primitive.
queue_command_icon_first(id, key, icon, noicon, rollback, cmd, ckey, cn) ==
       (IF key # None /\ ~noicon
            THEN <<Op(id, "delete_icon", key, 0)>> ELSE << >>)
    \o (IF rollback # 0
            THEN <<Op(id, "delete_history", key, rollback)>> ELSE << >>)
    \o (IF icon /\ ~noicon
            THEN <<Op(id, "draw_icon", key, 0)>> ELSE << >>)
    \o (IF cmd # "none"
            THEN <<Op(id, cmd, ckey, cn)>> ELSE << >>)

\* The body of the lock block of Window._queue_command: the operations one
\* push appends, in order.  `key` is the tool key or None, `icon` whether an
\* icon image was passed, `cmd` the callable ("none" for None) with its
\* tool argument `ckey` and step argument `cn`.
queue_command(id, key, icon, noicon, rollback, cmd, ckey, cn) ==
       (IF key # None /\ ~noicon
            THEN <<Op(id, "delete_icon", key, 0)>> ELSE << >>)
    \o (IF rollback # 0
            THEN <<Op(id, "delete_history", key, rollback)>> ELSE << >>)
    \o (IF cmd # "none"
            THEN <<Op(id, cmd, ckey, cn)>> ELSE << >>)
    \o (IF icon /\ ~noicon
            THEN <<Op(id, "draw_icon", key, 0)>> ELSE << >>)

\* Window._tk_internal_remove_tool on the canvas state `st`: the tool's
\* primitives and icon are deleted, its _window is set to None (recorded in
\* st.detach) and its key leaves both maps.  A missing key raises KeyError,
\* which the method swallows.
tk_internal_remove_tool(st, key) ==
    IF key \in st.drawtool
        THEN [st EXCEPT !.drawtool = @ \ {key}, !.icons = @ \ {key},
                        !.history[key] = << >>, !.detach = @ \cup {key}]
        ELSE st

\* Window._tk_internal_delete_history: pops `steps` entries; popping an
\* empty list raises IndexError, which the method swallows.
tk_internal_delete_history(st, key, steps) ==
    IF key \in st.drawtool
        THEN [st EXCEPT !.history[key] =
                 SubSeq(@, 1, Max(0, Len(@) - steps))]
        ELSE st

\* Window._tk_internal_execute on one queued operation.
tk_internal_execute(st, op) ==
    CASE op.kind = "delete_icon" ->
            [st EXCEPT !.icons = @ \ {op.key}]
      [] op.kind = "draw_icon" ->
            IF op.key \in st.drawtool
                THEN [st EXCEPT !.icons = @ \cup {op.key}] ELSE st
      [] op.kind = "delete_history" ->
            tk_internal_delete_history(st, op.key, op.n)
      [] op.kind = "remove_tool" ->
            tk_internal_remove_tool(st, op.key)
      [] op.kind \in Primitives ->
            \* hist = self._history[cmd[0]] raises KeyError for a removed
            \* tool before the primitive is drawn
            IF op.key \in st.drawtool
                THEN [st EXCEPT !.history[op.key] = Append(@, op.kind)] ELSE st
      [] OTHER -> st

RECURSIVE ExecAll(_, _)
ExecAll(cmds, st) ==
    IF cmds = << >> THEN st
    ELSE ExecAll(Tail(cmds), tk_internal_execute(st, Head(cmds)))

\* A variant of tk_update_batch that stops before the last operation.
tk_update_batch_partial(cmds, refreshed) ==
    IF refreshed /\ cmds # << >> THEN SubSeq(cmds, 1, Len(cmds) - 1) ELSE << >>

\* Lines 921-923 of Window._tk_update: the queued operations a tick
\* executes, in order.
tk_update_batch(cmds, refreshed) == IF refreshed THEN cmds ELSE << >>

\* Lines 911-919 of Window._tk_update: a requested clear empties the
\* canvas, the registry and the queue.
tk_clear(W) ==
    IF W.clear
        THEN [W EXCEPT !.drawtool = {}, !.icons = {},
                       !.history = [k \in Tools |-> << >>],
                       !.commands = << >>, !.clear = FALSE]
        ELSE W

\* Window._tk_update, the whole lock block, on window record W.  The result
\* holds the new window record, the executed batch and the tools whose
\* _window was set to None.
tk_update(W) ==
    LET C == tk_clear(W)
        batch == tk_update_batch(C.commands, C.refreshed)
        st0 == [drawtool |-> C.drawtool, icons |-> C.icons,
                history |-> C.history,
                detach |-> IF W.clear THEN W.drawtool ELSE {}]
        st1 == ExecAll(batch, st0)
    IN  [ w |-> [C EXCEPT !.drawtool = st1.drawtool, !.icons = st1.icons,
                          !.history = st1.history, !.refreshed = FALSE,
                          !.commands = << >>, !.adjusts = << >>],
          batch  |-> batch,
          detach |-> st1.detach ]

\* A variant of tk_dispose that leaves the tool registry alone.
tk_dispose_keep_tools(W) ==
    IF ~W.tkwindow THEN W
    ELSE [W EXCEPT !.commands = << >>, !.tkwindow = FALSE]

\* Window._tk_dispose: the window record after the lock block.
tk_dispose(W) ==
    IF ~W.tkwindow THEN W
    ELSE [W EXCEPT !.drawtool = {}, !.icons = {},
                   !.history = [k \in Tools |-> << >>],
                   !.commands = << >>, !.tkwindow = FALSE]

\* ------------------------------------------------------------------ calls
\* The window each tool was created on.
Home(k) == tool[k].screen

\* A variant of perstep that treats speed 10 like the speeds 1..9.
perstep_power(speed, length) ==
    IF speed = 0 THEN length ELSE Pow2(speed - 1)

\* Line 562 of _follow_line: the length of one animation step.
perstep(speed, length) ==
    IF speed \in {0, 10} THEN length ELSE Pow2(speed - 1)

\* Line 563 of _follow_line: the number of steps (perstep > 0).
stepcnt(speed, length) == Ceil(length, perstep(speed, length))

\* Lines 565-566 of _follow_line: the end point of step x (0-based),
\* p + v * min((x+1)*perstep/length, 1), on the x axis.
stepend(from, dir, per, length, x) == from + dir * Min((x + 1) * per, length)

\* A variant of next_rollback that never asks for a rollback.
next_rollback_never(x, cnt) == 0

\* Lines 570-571 of _follow_line: kw['rollback'] for the next push, after
\* step x of a segment of cnt steps (1 inside the segment, 0 after it).
next_rollback(x, cnt) == IF x + 1 < cnt THEN 1 ELSE 0

\* Line 620 of _follow_arc: the extent of one step.  `length` is not a name
\* bound in _follow_arc, so speeds 0 and 10 raise NameError (-1 here).
arc_perstep(speed) == IF speed \in {0, 10} THEN -1 ELSE Pow2(speed - 1)

\* The extent Pen.drawOval passes to _follow_arc.
OvalExtent == 359

\* A thread enters a public method of its tool.
BeginCall(th, name, k) ==
    [th EXCEPT !.call = name, !.npush = 0, !.len = 0,
               !.result = "running", !.phase = "none",
               !.cspeed = tool[k].speed, !.target = tool[k].x]

\* The call returns (res = "ok") or raises exception `res`: the locals of
\* the call are gone.
EndCall(th, res) ==
    [th EXCEPT !.pc = "idle", !.result = res, !.phase = "none",
               !.pw = None, !.pkey = None, !.pkind = "none", !.picon = FALSE,
               !.pblock = FALSE, !.prb = 0, !.pnoicon = FALSE,
               !.pnokey = FALSE, !.pcn = 0, !.pend = 0,
               !.pid = 0, !.pof = 0, !.pdone = 0, !.pafter = FALSE,
               !.step = 0, !.stepcnt = 0, !.perstep = 0, !.from = 0, !.dir = 1]

\* Window.dispose() has been called on w: its key waits in the context's
\* _delete list or its teardown has run.
DisposeCalled(w) ==
    \/ \E i \in 1 .. Len(ctx.delete) : ctx.delete[i] = w
    \/ ~win[w].tkwindow

\* The thread calls Window._draw_<kind>(tool, icon, ..., block, rollback) on
\* window w: the next step is the attachment check.
StartPush(th, w, k, kind, icon, block, rb, noicon, endx) ==
    [th EXCEPT !.pc = "check", !.pw = w, !.pkey = k, !.pkind = kind,
               !.picon = icon, !.pblock = block, !.prb = rb,
               !.pnoicon = noicon, !.pnokey = FALSE, !.pcn = 0,
               !.pend = endx, !.pid = 0, !.pof = 0, !.pdone = 0,
               !.pafter = DisposeCalled(w)]

\* self._window._draw_<kind>(...) evaluated by a tool method: the attribute
\* lookup on None raises AttributeError.
ToolPush(th, k, kind, icon, block, rb, endx) ==
    IF tool[k].window = None
        THEN EndCall(th, "AttributeError")
        ELSE StartPush(th, tool[k].window, k, kind, icon, block, rb, FALSE, endx)

\* _DrawTool._toolicon: an icon is passed iff the tool is visible.
toolicon(k) == tool[k].visible

\* _DrawTool._follow_line for one segment from `from` to `target`, up to its
\* first push.  kw carries no 'block' for speed > 0 (the default of
\* _queue_command is blocking) and block = False for speed 0.
follow_line(th, k, from, target) ==
    LET length == IF target >= from THEN target - from ELSE from - target
        dir    == IF target >= from THEN 1 ELSE -1
        speed  == tool[k].speed
        per    == perstep(speed, length)
    IN  IF per = 0
            THEN EndCall(th, "ZeroDivisionError")
        ELSE IF stepcnt(speed, length) = 0
            THEN EndCall([th EXCEPT !.target = target], "ok")
        ELSE ToolPush([th EXCEPT !.phase = "line", !.step = 0,
                                 !.stepcnt = stepcnt(speed, length),
                                 !.perstep = per, !.len = length,
                                 !.from = from, !.dir = dir,
                                 !.target = target],
                      k, "line", toolicon(k), speed # 0, 0,
                      stepend(from, dir, per, length, 0))

\* _DrawTool._follow_arc for extent `extnt`, up to its first push.
follow_arc(th, k, extnt, block) ==
    LET per == arc_perstep(tool[k].speed)
    IN  IF per < 0
            THEN EndCall(th, "NameError")
        ELSE ToolPush([th EXCEPT !.phase = "arc", !.step = 0,
                                 !.stepcnt = Ceil(extnt, per),
                                 !.perstep = per, !.len = extnt],
                      k, "arc", toolicon(k), block, 0, Min(per, extnt))

\* What the thread does when the push it is in returns: the rest of the
\* tool method, up to its next push or its end.  `th` is the thread record
\* and `x` the tool's _x afterwards.
Return(t) ==
    LET th  == thr[t]
        k   == ToolOf(t)
        nxt == th.step + 1
    IN  CASE th.phase = "line" ->
                \* lines 568-570 of _follow_line, then the next iteration
                IF nxt < th.stepcnt
                    THEN [th |-> ToolPush([th EXCEPT !.step = nxt], k, "line",
                                     toolicon(k), th.pblock,
                                     next_rollback(th.step, th.stepcnt),
                                     stepend(th.from, th.dir, th.perstep, th.len, nxt)),
                          x |-> th.pend]
                    ELSE [th |-> EndCall(th, "ok"), x |-> th.target]
          [] th.phase = "arc" ->
                \* line 629 of _follow_arc, then the next iteration; after
                \* the loop Pen.drawOval draws the whole oval (line 456)
                IF nxt < th.stepcnt
                    THEN [th |-> ToolPush([th EXCEPT !.step = nxt], k, "arc",
                                     toolicon(k), th.pblock, 1,
                                     Min((nxt + 1) * th.perstep, th.len)),
                          x |-> tool[k].x]
                    ELSE [th |-> ToolPush([th EXCEPT !.phase = "oval"], k, "oval",
                                     toolicon(k), th.pblock, 0, tool[k].x),
                          x |-> tool[k].x]
          [] th.phase = "fillpoly" ->
                \* lines 578-581 of Pen._end_fill: the outline after the
                \* polygon, without rollback
                [th |-> ToolPush([th EXCEPT !.phase = "outline"], k, "line",
                                 toolicon(k), th.pblock, 0, tool[k].x),
                 x |-> tool[k].x]
          [] th.phase = "outline" ->
                \* _end_fill returns; Pen.move goes on at line 371 and
                \* stores the position before it draws the icon, the solid
                \* setter returns
                IF th.call = "move"
                    THEN [th |-> IF tool[k].visible
                                     THEN ToolPush([th EXCEPT !.phase = "icon"], k,
                                              "icon", TRUE, tool[k].speed > 0, 0,
                                              th.target)
                                     ELSE EndCall(th, "ok"),
                          x |-> th.target]
                    ELSE [th |-> EndCall(th, "ok"), x |-> tool[k].x]
          [] th.phase = "resetall" ->
                \* Turtle.reset / Pen.reset after Window._reset: the
                \* attributes are assigned, then the arguments of _draw_icon
                \* name x and y, which are bound nowhere (NameError)
                [th |-> EndCall(th, "NameError"), x |-> 0]
          [] th.phase = "flushicon" ->
                \* line 516 of _DrawTool._flush: self._window.flush()
                IF tool[k].window = None
                    THEN [th |-> EndCall(th, "AttributeError"), x |-> tool[k].x]
                    ELSE [th |-> [th EXCEPT !.pc = "wflush", !.pw = tool[k].window],
                          x |-> tool[k].x]
          [] OTHER ->
                [th |-> EndCall(th, "ok"), x |-> th.target]

\* Pen._begin_fill: the fill starts at the pen's position (self.x).
begin_fill(T) == [T EXCEPT !.solid = TRUE, !.shist = <<T.x>>]

\* Lines 582-583 of Pen._end_fill: the vertices are forgotten.
end_fill(T) == [T EXCEPT !.solid = FALSE, !.shist = << >>]

\* Line 577 of Pen._end_fill: a fill of more than two vertices is drawn.
fill_drawn(T) == Len(T.shist) > 2

\* The assignments of Turtle.reset (lines 485-491) and Pen.reset (lines
\* 516-530): position, speed, visibility, heading and fill.
reset_attributes(T) ==
    [T EXCEPT !.x = 0, !.speed = 10, !.visible = TRUE,
              !.heading = IF T.cls = "Turtle" THEN 0 ELSE @,
              !.solid = FALSE, !.shist = << >>]

\* The tool when the push thread t is in returns: Window._reset is
\* followed by the assignments of reset(), and the outline of
\* _end_fill is followed by the end of _end_fill and, in Pen.move, by
\* _begin_fill (line 370) and the assignment of the position (371-372).
ToolAfter(t) ==
    LET k == ToolOf(t)
        R == Return(t)
        T == IF thr[t].phase = "resetall" THEN reset_attributes(tool[k])
             ELSE IF thr[t].phase # "outline" THEN tool[k]
             ELSE IF thr[t].call = "move" THEN begin_fill(end_fill(tool[k]))
             ELSE end_fill(tool[k])
    IN  [tool EXCEPT ![k] = [T EXCEPT !.x = R.x]]

\* ------------------------------------------------------------------ locks
\* A variant of LockHeld in which Window._tk_update runs without the lock.
LockHeld_never(w) == FALSE

\* A variant of LockHeld in which all windows share one lock.
LockHeld_shared(w) == tk.pc \in {"drain", "adjusted"}

\* The Tk thread holds window w's lock (self._lock, one threading.Lock per
\* Window): it is inside the `with self._lock` block of w's _tk_update.
\* Every other lock block of a Window is one step of the model, so no
\* application thread holds a window lock between two steps.
LockHeld(w) == tk.pc \in {"drain", "adjusted"} /\ tk.w = w

\* The Tk thread holds the context's lock: it is inside
\* _AsyncContext._tk_update.
CtxLockHeld ==
    tk.pc \in {"update", "drain", "adjusted", "pack", "packed", "deadlock"}

\* ------------------------------------------------------------------ pushes
\* The first lock block of Window._draw_<kind> (and of Window._reset): the
\* attachment check.  In Window._unregister the branch for a missing key
\* evaluates self.tool, which a Window does not have (AttributeError).
Check(t) ==
    LET th == thr[t]
        W  == win[th.pw]
    IN  /\ th.pc = "check"
        /\ ~LockHeld(th.pw)
        /\ IF th.pkey \in W.drawtool
              THEN thr' = [thr EXCEPT ![t] =
                       [th EXCEPT !.pc = "append",
                                  !.pcn = IF th.pnokey THEN Len(W.history[th.pkey]) ELSE 0]]
              ELSE thr' = [thr EXCEPT ![t] =
                       EndCall(th, IF th.pkind = "remove_tool"
                                       THEN "AttributeError"
                                       ELSE "AttachmentError")]
        /\ UNCHANGED <<win, tool, ctx, tk, gh>>

\* The lock block of Window._queue_command: the whole push is appended.  A
\* non-blocking push returns at once.
QueueAppend(t) ==
    LET th  == thr[t]
        id  == gh.npush + 1
        ops == Numbered(queue_command(id, IF th.pnokey THEN None ELSE th.pkey,
                                      th.picon, th.pnoicon, th.prb,
                                      CmdOf(th.pkind), th.pkey, th.pcn))
        R   == Return(t)
    IN  /\ th.pc = "append"
        /\ ~LockHeld(th.pw)
        /\ win' = [win EXCEPT ![th.pw].commands = @ \o ops]
        /\ gh' = [gh EXCEPT !.npush = id]
        /\ IF th.pblock
              THEN /\ thr' = [thr EXCEPT ![t] =
                          [th EXCEPT !.pc = "flush", !.pid = id,
                                     !.pof = Len(ops), !.npush = @ + 1]]
                   /\ tool' = tool
              ELSE /\ thr' = [thr EXCEPT ![t] = [R.th EXCEPT !.npush = @ + 1]]
                   /\ tool' = ToolAfter(t)
        /\ UNCHANGED <<ctx, tk>>

\* Window.flush, its lock block (_Context.refresh is a no-op on the
\* asynchronous context).
flush(W) == [W EXCEPT !.refreshed = TRUE]

\* self.flush() inside a blocking _queue_command (line 592).
FlushStep(t) ==
    LET th == thr[t]
    IN  /\ th.pc = "flush"
        /\ ~LockHeld(th.pw)
        /\ win' = [win EXCEPT ![th.pw] = flush(@)]
        /\ thr' = [thr EXCEPT ![t].pc = "poll"]
        /\ UNCHANGED <<tool, ctx, tk, gh>>

\* The poll loop of a blocking push (lines 593-594) sees an empty queue and
\* the push returns.  While the queue is not empty the thread sleeps.
PollExit(t) ==
    LET th == thr[t]
        R  == Return(t)
    IN  /\ th.pc = "poll"
        /\ win[th.pw].commands = << >>
        /\ thr' = [thr EXCEPT ![t] = R.th]
        /\ tool' = ToolAfter(t)
        /\ UNCHANGED <<win, ctx, tk, gh>>

\* self._window.flush() at the end of _DrawTool._flush.
WFlush(t) ==
    LET th == thr[t]
    IN  /\ th.pc = "wflush"
        /\ ~LockHeld(th.pw)
        /\ win' = [win EXCEPT ![th.pw] = flush(@)]
        /\ thr' = [thr EXCEPT ![t] = EndCall(th, "ok")]
        /\ UNCHANGED <<tool, ctx, tk, gh>>

\* ------------------------------------------------------------------ tools
Idle(t) == thr[t].pc = "idle" /\ gh.calls < MaxCalls

\* The thread record after the first stretch of a tool method; a method
\* that has already returned normally has stored its target position.
StartCall(t, th1) ==
    /\ thr' = [thr EXCEPT ![t] = th1]
    /\ gh' = [gh EXCEPT !.calls = @ + 1]
    /\ UNCHANGED <<win, ctx, tk>>

SetX(k, th1) ==
    IF th1.pc = "idle" /\ th1.result = "ok" THEN th1.target ELSE tool[k].x

\* Turtle.forward(d) and Turtle.backward(d) (sign = 1, -1).
TurtleLine(t, name, d, sign) ==
    LET k   == ToolOf(t)
        th0 == BeginCall(thr[t], name, k)
        tgt == tool[k].x + sign * d
        th1 == IF tool[k].isdown
                   THEN follow_line(th0, k, tool[k].x, tgt)
               ELSE IF tool[k].visible
                   THEN ToolPush([th0 EXCEPT !.phase = "icon", !.target = tgt],
                                 k, "icon", TRUE, tool[k].speed > 0, 0, tgt)
               ELSE EndCall([th0 EXCEPT !.target = tgt], "ok")
    IN  /\ Idle(t)
        /\ tool[k].cls = "Turtle"
        /\ StartCall(t, th1)
        /\ tool' = [tool EXCEPT ![k].x = SetX(k, th1)]

Forward(t, d)  == TurtleLine(t, "forward", d, 1)
Backward(t, d) == TurtleLine(t, "backward", d, -1)

\* Pen.drawLine(d, 0), which is Pen.drawTo(x + d, y): a solid pen records
\* the end point (lines 412-414) before the line is animated.
DrawLine(t, d) ==
    LET k   == ToolOf(t)
        th0 == BeginCall(thr[t], "drawLine", k)
        th1 == follow_line(th0, k, tool[k].x, tool[k].x + d)
    IN  /\ Idle(t)
        /\ tool[k].cls = "Pen"
        /\ StartCall(t, th1)
        /\ tool' = [tool EXCEPT ![k].x = SetX(k, th1),
                                ![k].shist = IF tool[k].solid
                                                 THEN Append(@, tool[k].x + d)
                                                 ELSE @]

\* Pen.drawOval(rx, ry) (solid is False): the animated arc, then the oval.
DrawOval(t) ==
    LET k   == ToolOf(t)
        th0 == BeginCall(thr[t], "drawOval", k)
        th1 == follow_arc(th0, k, OvalExtent, tool[k].speed > 0)
    IN  /\ Idle(t)
        /\ tool[k].cls = "Pen"
        /\ StartCall(t, th1)
        /\ tool' = tool

\* Pen._end_fill up to its first push: the polygon, which replaces the
\* len(_shist)//2 - 1 lines drawn since the fill began.
push_fill(th, k) ==
    ToolPush([th EXCEPT !.phase = "fillpoly"], k, "polygon", toolicon(k),
             tool[k].speed > 0, Len(tool[k].shist) - 1, tool[k].x)

\* Turtle.move(x, y) / Pen.move(x, y): the position is stored, then the
\* icon is drawn.  A solid pen first runs _end_fill and _begin_fill (lines
\* 368-370 of Pen.move), with the position it had before the call.
Move(t, x1) ==
    LET k   == ToolOf(t)
        th0 == [BeginCall(thr[t], "move", k) EXCEPT !.target = x1]
        th1 == IF tool[k].solid /\ fill_drawn(tool[k])
                   THEN push_fill(th0, k)
               ELSE IF tool[k].visible
                   THEN ToolPush([th0 EXCEPT !.phase = "icon"], k, "icon", TRUE,
                                 tool[k].speed > 0, 0, x1)
                   ELSE EndCall(th0, "ok")
        T   == IF tool[k].solid THEN begin_fill(end_fill(tool[k])) ELSE tool[k]
    IN  /\ Idle(t)
        /\ StartCall(t, th1)
        /\ tool' = IF tool[k].solid /\ fill_drawn(tool[k]) THEN tool
                   ELSE [tool EXCEPT ![k] = [T EXCEPT !.x = x1]]

\* The Pen.solid setter (lines 143-152): nothing for the value the pen
\* has, _begin_fill for True and _end_fill for False.
SetSolid(t, value) ==
    LET k   == ToolOf(t)
        th0 == BeginCall(thr[t], "solid", k)
        th1 == IF ~value /\ tool[k].solid /\ fill_drawn(tool[k])
                   THEN push_fill(th0, k)
                   ELSE EndCall(th0, "ok")
    IN  /\ Idle(t)
        /\ tool[k].cls = "Pen"
        /\ StartCall(t, th1)
        /\ tool' = IF tool[k].solid = value THEN tool
                   ELSE IF value THEN [tool EXCEPT ![k] = begin_fill(@)]
                   ELSE IF fill_drawn(tool[k]) THEN tool
                   ELSE [tool EXCEPT ![k] = end_fill(@)]

\* Turtle.left(deg) / Turtle.right(deg) and the Turtle.color setter: both
\* run the same steps (_set_orientation, _set_color): the attachment test,
\* nothing shown at speed 0, else the icon redrawn if visible.
SetIcon(t, name, deg) ==
    LET k   == ToolOf(t)
        th0 == BeginCall(thr[t], name, k)
        th1 == IF tool[k].window = None
                   THEN EndCall(th0, "AttachmentError")
               ELSE IF tool[k].speed = 0 \/ ~tool[k].visible
                   THEN EndCall(th0, "ok")
               ELSE ToolPush([th0 EXCEPT !.phase = "icon"], k, "icon", TRUE,
                             TRUE, 0, tool[k].x)
    IN  /\ Idle(t)
        /\ tool[k].cls = "Turtle"
        /\ StartCall(t, th1)
        /\ tool' = IF tool[k].window = None THEN tool
                   ELSE [tool EXCEPT ![k].heading = @ + deg]

Left(t, deg) == SetIcon(t, "left", deg)
SetColor(t)  == SetIcon(t, "color", 0)

\* The visible setter (_set_visible).
SetVisible(t, v) ==
    LET k   == ToolOf(t)
        th0 == BeginCall(thr[t], "visible", k)
        th1 == IF tool[k].window = None
                   THEN EndCall(th0, "AttachmentError")
               ELSE IF tool[k].speed = 0 \/ v = tool[k].visible
                   THEN EndCall(th0, "ok")
               ELSE ToolPush([th0 EXCEPT !.phase = "icon"], k, "icon", v,
                             TRUE, 0, tool[k].x)
    IN  /\ Idle(t)
        /\ StartCall(t, th1)
        /\ tool' = IF tool[k].window = None THEN tool
                   ELSE [tool EXCEPT ![k].visible = v]

\* The drawmode setter of Turtle.
SetDrawmode(t, v) ==
    LET k == ToolOf(t)
    IN  /\ Idle(t)
        /\ tool[k].cls = "Turtle"
        /\ StartCall(t, EndCall(BeginCall(thr[t], "drawmode", k), "ok"))
        /\ tool' = [tool EXCEPT ![k].isdown = v]

\* _DrawTool._flush up to its push: the attachment test, then the icon is
\* redrawn by a blocking push.
tool_flush(th0, k) ==
    IF tool[k].window = None
        THEN EndCall(th0, "AttachmentError")
        ELSE ToolPush([th0 EXCEPT !.phase = "flushicon"], k, "icon",
                      toolicon(k), TRUE, 0, tool[k].x)

\* Turtle.flush() / Pen.flush().
Flush(t) ==
    LET k == ToolOf(t)
    IN  /\ Idle(t)
        /\ StartCall(t, tool_flush(BeginCall(thr[t], "flush", k), k))
        /\ tool' = tool

\* The speed setter (_set_speed): leaving speed 0 flushes.
SetSpeed(t, s) ==
    LET k   == ToolOf(t)
        th0 == BeginCall(thr[t], "speed", k)
        th1 == IF tool[k].speed = 0 /\ s # 0
                   THEN tool_flush(th0, k) ELSE EndCall(th0, "ok")
    IN  /\ Idle(t)
        /\ StartCall(t, th1)
        /\ tool' = [tool EXCEPT ![k].speed = s]

\* Turtle.clear() / Pen.clear(): Window._reset, whose lock block checks the
\* attachment and reads the history length, then queues the deletion.
Clear(t) ==
    LET k   == ToolOf(t)
        th0 == BeginCall(thr[t], "clear", k)
        th1 == IF tool[k].window = None
                   THEN EndCall(th0, "AttributeError")
                   ELSE [StartPush([th0 EXCEPT !.phase = "reset"], tool[k].window,
                                   k, "delete_history", FALSE, FALSE, 0, FALSE,
                                   tool[k].x)
                            EXCEPT !.pnokey = TRUE]
    IN  /\ Idle(t)
        /\ StartCall(t, th1)
        /\ tool' = tool

\* Turtle.reset() / Pen.reset(): Window._reset as in clear(), then the
\* rest of the method when that push has returned.
Reset(t) ==
    LET k   == ToolOf(t)
        th0 == BeginCall(thr[t], "reset", k)
        th1 == IF tool[k].window = None
                   THEN EndCall(th0, "AttributeError")
                   ELSE [StartPush([th0 EXCEPT !.phase = "resetall"],
                                   tool[k].window, k, "delete_history", FALSE,
                                   FALSE, 0, FALSE, tool[k].x)
                            EXCEPT !.pnokey = TRUE]
    IN  /\ Idle(t)
        /\ StartCall(t, th1)
        /\ tool' = tool

\* A direct call of Window._draw_<kind>(tool, icon, ..., block=, rollback=,
\* noicon=) on the window the tool was created on.  Thread t1 issues the
\* first three kinds and thread t2 the other three.
DirectInputs(t) ==
    IF t = "t1"
    THEN { [kind |-> "icon",      icon |-> TRUE,  block |-> TRUE,  rb |-> 0, noicon |-> FALSE],
           [kind |-> "line",      icon |-> TRUE,  block |-> FALSE, rb |-> 1, noicon |-> FALSE],
           [kind |-> "arc",       icon |-> FALSE, block |-> TRUE,  rb |-> 0, noicon |-> FALSE] }
    ELSE { [kind |-> "oval",      icon |-> TRUE,  block |-> FALSE, rb |-> 0, noicon |-> TRUE],
           [kind |-> "rectangle", icon |-> FALSE, block |-> FALSE, rb |-> 1, noicon |-> TRUE],
           [kind |-> "polygon",   icon |-> TRUE,  block |-> TRUE,  rb |-> 2, noicon |-> FALSE] }

DirectPush(t, in) ==
    LET k   == ToolOf(t)
        th0 == BeginCall(thr[t], "push", k)
    IN  /\ Idle(t)
        /\ StartCall(t, StartPush([th0 EXCEPT !.phase = "direct"], Home(k), k,
                                  in.kind, in.icon, in.block, in.rb, in.noicon,
                                  tool[k].x))
        /\ tool' = tool

\* A direct call of Window._unregister(tool) on the window the tool was
\* created on: the registry test, then a non-blocking push of
\* _tk_internal_remove_tool with no key.
Unregister(t) ==
    LET k   == ToolOf(t)
        th0 == BeginCall(thr[t], "unregister", k)
    IN  /\ Idle(t)
        /\ StartCall(t, [StartPush([th0 EXCEPT !.phase = "direct"], Home(k), k,
                                   "remove_tool", FALSE, FALSE, 0, FALSE,
                                   tool[k].x)
                            EXCEPT !.pnokey = TRUE])
        /\ tool' = tool

\* ------------------------------------------------------------------ window
\* The main thread's calls on a window are single critical sections.
MainOp == gh.winops < MaxWinOps

\* Window.flush().
WinFlush(w) ==
    /\ MainOp
    /\ ~LockHeld(w)
    /\ win' = [win EXCEPT ![w] = flush(@)]
    /\ gh' = [gh EXCEPT !.winops = @ + 1]
    /\ UNCHANGED <<tool, thr, ctx, tk>>

\* Window.clear().
WinClear(w) ==
    /\ MainOp
    /\ ~LockHeld(w)
    /\ win' = [win EXCEPT ![w].clear = TRUE, ![w].refreshed = TRUE]
    /\ gh' = [gh EXCEPT !.winops = @ + 1]
    /\ UNCHANGED <<tool, thr, ctx, tk>>

\* Window.dispose(): _AsyncContext.dealloc queues the key under the
\* context's lock, which the Tk thread holds during a tick.
WinDispose(w) ==
    /\ MainOp
    /\ ~CtxLockHeld
    /\ ctx' = [ctx EXCEPT !.delete = Append(@, w)]
    /\ gh' = [gh EXCEPT !.winops = @ + 1]
    /\ UNCHANGED <<win, tool, thr, tk>>

\* A property setter of Window (x, y, width, height, title, resizable):
\* the record is appended outside any lock block.
WinSet(w, name) ==
    /\ MainOp
    /\ win' = [win EXCEPT ![w].adjusts = Append(@, name)]
    /\ gh' = [gh EXCEPT !.winops = @ + 1]
    /\ UNCHANGED <<tool, thr, ctx, tk>>

\* ------------------------------------------------------------------ Tk thread
\* _TK_Thread._poll of a stopped worker: it quits the main loop.
TkQuit ==
    /\ tk.pc = "idle"
    /\ ~ctx.bkgd
    /\ tk' = TkAt("stopped", << >>)
    /\ UNCHANGED <<win, tool, thr, ctx, gh>>

\* A variant of Detach that also hides the tools it detaches.
Detach_hidden(tl, ks) ==
    [k \in Tools |-> IF k \in ks THEN [tl[k] EXCEPT !.window = None, !.visible = FALSE]
                                  ELSE tl[k]]

\* Line 1112 of _tk_internal_remove_tool (refs[0]._window = None), for the
\* tools `ks` removed in one drain or teardown.
Detach(tl, ks) == [k \in Tools |-> IF k \in ks THEN [tl[k] EXCEPT !.window = None] ELSE tl[k]]

\* _TK_Thread._poll of a running worker enters _AsyncContext._tk_update and
\* takes the context's lock (tk.pc = "update"); `todo` holds the windows
\* whose _tk_update is still to come.
TkTodo == IF tk.pc = "idle" THEN ctx.window ELSE tk.todo

\* The operations of push `id` in a batch.
CountOf(batch, id) == Cardinality({j \in 1 .. Len(batch) : batch[j].id = id})

\* Lines 232-233 of _AsyncContext._tk_update: Window._tk_update of the
\* next window.
TkWindowUpdate ==
    /\ \/ tk.pc = "idle" /\ ctx.bkgd
       \/ tk.pc = "update"
    /\ TkTodo # << >>
    /\ LET w == Head(TkTodo)
           U == tk_update(win[w])
       IN  /\ win' = [win EXCEPT ![w] = U.w]
           /\ tool' = Detach(tool, U.detach)
           /\ gh' = [gh EXCEPT
                       !.batch = U.batch,
                       !.maxout = MaxId(win[w].commands, @),
                       !.fifo = @ /\ Sorted(U.batch)
                                  /\ (U.batch = << >> \/ U.batch[1].id > gh.maxout)]
           /\ thr' = [t \in Threads |->
                        IF thr[t].pid # 0
                            THEN [thr[t] EXCEPT !.pdone = @ + CountOf(U.batch, thr[t].pid)]
                            ELSE thr[t]]
    /\ tk' = TkAt("update", Tail(TkTodo))
    /\ UNCHANGED ctx

\* Line 236 of _AsyncContext._tk_update, `del self._window[key]`, drops the
\* last reference to the Window: the application holds none and, after
\* _tk_dispose, no tool and no toolkit callback refers to it.  Window.__del__
\* then runs at once, in the Tk thread.
last_reference(W) == ~W.held

\* Lines 234-236 of _AsyncContext._tk_update: the queued disposals, in
\* order.  self._window[key] raises KeyError for a key that is no longer
\* allocated; `err` records it and the loop stops there.  When the deletion
\* of the key drops the last reference, Window.__del__ calls dispose() and
\* dealloc() asks for the context's lock, which this thread holds and which
\* is not reentrant: `stuck` records it and the thread never returns.
RECURSIVE tk_deletes(_, _)
tk_deletes(del, st) ==
    IF del = << >> \/ st.err \/ st.stuck THEN st
    ELSE LET w == Head(del)
         IN  IF w \notin SeqRange(st.window)
                 THEN [st EXCEPT !.err = TRUE]
                 ELSE tk_deletes(Tail(del),
                        [st EXCEPT !.win[w] = tk_dispose(st.win[w]),
                                   !.window = SelectSeq(@, LAMBDA v : v # w),
                                   !.stuck = last_reference(st.win[w]),
                                   !.detach = @ \cup
                                       (IF st.win[w].tkwindow THEN st.win[w].drawtool ELSE {})])

\* The rest of _AsyncContext._tk_update (lines 234-245): disposals, then
\* the requested windows are packed (in steps of their own when there are
\* any) and the worker is stopped when no window is left.  An exception
\* leaves the method (and _poll, before it re-registers itself): the polling
\* ends.
TkFinish ==
    /\ \/ tk.pc = "idle" /\ ctx.bkgd
       \/ tk.pc = "update"
    /\ TkTodo = << >>
    /\ LET D == tk_deletes(ctx.delete,
                   [win |-> win, window |-> ctx.window, err |-> FALSE,
                    stuck |-> FALSE, detach |-> {}])
       IN  /\ win' = D.win
           /\ tool' = Detach(tool, D.detach)
           /\ gh' = [gh EXCEPT !.batch = << >>]
           /\ thr' = thr
           /\ IF D.stuck
                 THEN /\ ctx' = [ctx EXCEPT !.window = D.window]
                      /\ tk' = TkAt("deadlock", << >>)
              ELSE IF D.err
                 THEN /\ ctx' = [ctx EXCEPT !.window = D.window]
                      /\ tk' = TkAt("dead", << >>)
                 ELSE IF ctx.create # << >>
                 THEN /\ ctx' = [ctx EXCEPT !.window = D.window, !.delete = << >>]
                      /\ tk' = TkAt("pack", << >>)
                 ELSE /\ ctx' = [ctx EXCEPT !.window = D.window, !.delete = << >>,
                                            !.bkgd = (D.window # << >>)]
                      /\ tk' = TkAt("idle", << >>)

\* A variant of pack that marks the window active without building it.
pack_active_only(W) == [W EXCEPT !.active = TRUE]

\* _AsyncContext._pack up to line 295: the Toplevel, the panels and the
\* canvas are built and stored in the Window, then window._active is set.
pack(W) == [W EXCEPT !.tkwindow = TRUE, !.active = TRUE]

\* Lines 238-239 of _AsyncContext._tk_update: _pack of the next requested
\* window, up to the assignment of window._active.
TkPackActive ==
    /\ tk.pc = "pack"
    /\ win' = [win EXCEPT ![Head(ctx.create)] = pack(@)]
    /\ tk' = TkAt("packed", << >>)
    /\ UNCHANGED <<tool, thr, ctx, gh>>

\* Line 296 of _pack and line 240: the window enters self._window.  After
\* the last one, self._create is cleared and the tick ends (a window is
\* allocated, so the worker stays).
TkPackRegister ==
    /\ tk.pc = "packed"
    /\ ctx' = [ctx EXCEPT !.window = Append(@, Head(ctx.create)),
                          !.create = Tail(@)]
    /\ tk' = TkAt(IF Tail(ctx.create) = << >> THEN "idle" ELSE "pack", << >>)
    /\ UNCHANGED <<win, tool, thr, gh>>

\* _TK_Thread._poll of a stopped worker that has been replaced: it quits.
LingerQuit ==
    /\ ctx.lingering > 0
    /\ ctx' = [ctx EXCEPT !.lingering = @ - 1]
    /\ UNCHANGED <<win, tool, thr, tk, gh>>

\* The _TK_Thread objects whose run() has not returned.
Workers ==
    (IF tk.pc = "stopped" THEN 0 ELSE 1) + ctx.lingering + ctx.orphans

\* ------------------------------------------------------------------ construction
\* The window each application thread constructs.
WindowOf(t) == IF t = "t1" THEN "w1" ELSE "w2"

\* Two _AsyncContext objects are in use.  What the program does from there
\* on is not followed.
Split == \E t \in Threads : thr[t].pc = "split"

\* Window(): Window.__init__ up to the test of _AsyncContext.Instance
\* (`if not cls._INSTANCE`).
Construct(t) ==
    LET w == WindowOf(t)
    IN  /\ thr[t].pc = "idle"
        /\ ~win[w].active
        /\ ~Split
        /\ thr' = [thr EXCEPT ![t] =
                     [IdleThread EXCEPT !.pc = IF ctx.inst = 0 THEN "newctx" ELSE "ret",
                                        !.call = "Window", !.result = "running",
                                        !.pw = w]]
        /\ UNCHANGED <<win, tool, ctx, tk, gh>>

\* Line 135 of Instance: cls._INSTANCE = cls().  A second object replaces
\* the first; if the other thread is already working with the first one,
\* two contexts are in use.
InstanceCreate(t) ==
    /\ thr[t].pc = "newctx"
    /\ ctx' = [ctx EXCEPT !.inst = @ + 1]
    /\ thr' = [thr EXCEPT ![t].pc =
                 IF ctx.inst > 0 /\ \E u \in Threads \ {t} :
                                        thr[u].pc \notin {"idle", "newctx", "ret"}
                                        \/ win[WindowOf(u)].active
                     THEN "split" ELSE "ret"]
    /\ UNCHANGED <<win, tool, tk, gh>>

\* Line 136 of Instance: return cls._INSTANCE, the object stored last.
InstanceReturn(t) ==
    /\ thr[t].pc = "ret"
    /\ thr' = [thr EXCEPT ![t].pc = "alloc"]
    /\ UNCHANGED <<win, tool, ctx, tk, gh>>

\* Line 176 of alloc: `if not self._bkgd`, read without the lock.
AllocRead(t) ==
    /\ thr[t].pc = "alloc"
    /\ thr' = [thr EXCEPT ![t].pc = IF ctx.bkgd THEN "create" ELSE "spawn"]
    /\ UNCHANGED <<win, tool, ctx, tk, gh>>

\* Line 177 of alloc: self._bkgd = _TK_Thread(self).  The constructor
\* starts the thread and returns once it is initialized.  A worker that
\* self._bkgd referred to keeps running (its ticks run the same
\* _tk_update under the same lock as the new worker's); a stopped worker
\* that has not quit yet lingers until its next poll.
Spawn(t) ==
    /\ thr[t].pc = "spawn"
    /\ thr' = [thr EXCEPT ![t].pc = "create"]
    /\ IF ctx.bkgd
          THEN /\ ctx' = [ctx EXCEPT !.orphans = @ + 1]
               /\ tk' = tk
          ELSE IF tk.pc = "idle"
          THEN /\ ctx' = [ctx EXCEPT !.bkgd = TRUE, !.lingering = @ + 1]
               /\ tk' = NewTk
          ELSE /\ ctx' = [ctx EXCEPT !.bkgd = TRUE]
               /\ tk' = NewTk
    /\ UNCHANGED <<win, tool, gh>>

\* Lines 179-180 of alloc: the request is appended under the context's lock.
CreateAppend(t) ==
    /\ thr[t].pc = "create"
    /\ ~CtxLockHeld
    /\ ctx' = [ctx EXCEPT !.create = Append(@, thr[t].pw)]
    /\ thr' = [thr EXCEPT ![t].pc = "wait"]
    /\ UNCHANGED <<win, tool, tk, gh>>

\* Lines 182-183 of alloc: `while not obj._active: pass` ends and Window()
\* returns.
AllocWait(t) ==
    /\ thr[t].pc = "wait"
    /\ win[thr[t].pw].active
    /\ thr' = [thr EXCEPT ![t] = EndCall(thr[t], "ok")]
    /\ UNCHANGED <<win, tool, ctx, tk, gh>>

\* The constructor of window w has returned its handle.
Built(w) ==
    /\ win[w].active
    /\ \A t \in Threads : WindowOf(t) = w => thr[t].pc = "idle"

\* The application drops its last reference to window w (del w, or the
\* variable goes out of scope).  While the context's map holds the window
\* nothing else happens; once the map has let it go, Window.__del__ runs
\* in this thread and calls dispose(): dealloc appends the key under the
\* context's lock.
DropRef(w) ==
    /\ Built(w)
    /\ win[w].held
    /\ MainOp
    /\ win' = [win EXCEPT ![w].held = FALSE]
    /\ IF w \in SeqRange(ctx.window)
          THEN ctx' = ctx
          ELSE /\ ~CtxLockHeld
               /\ ctx' = [ctx EXCEPT !.delete = Append(@, w)]
    /\ gh' = [gh EXCEPT !.winops = @ + 1]
    /\ UNCHANGED <<tool, thr, tk>>

\* A variant of register_raises that accepts a disposed window.
register_raises_never(W) == FALSE

\* Lines 494-495 of Window._register: a disposed window refuses the tool.
register_raises(W) == ~W.tkwindow

\* The speed arguments offered to the constructor and to the setter: ints
\* inside and outside 0..10, and a value that is not an int (isint FALSE).
SpeedInputs ==
    { [isint |-> TRUE,  v |-> -1], [isint |-> TRUE,  v |-> 0],
      [isint |-> TRUE,  v |-> 5],  [isint |-> TRUE,  v |-> 10],
      [isint |-> TRUE,  v |-> 11], [isint |-> FALSE, v |-> 5] }

\* The assertions on a speed in _DrawTool.__init__ and in the speed
\* setters: type(value) == int, and (value >= 0 or value <= 10).
speed_asserts(in) == in.isint /\ (in.v >= 0 \/ in.v <= 10)

\* Turtle(w, speed = in) or Pen(w, speed = in) (cls) by the thread that
\* constructed w: _DrawTool.__init__ checks its arguments, stores the window
\* and calls Window._register (one lock block), then stores the speed.
ConstructTool(t, cls, in) ==
    LET w == WindowOf(t)
        k == ToolOf(t)
    IN  /\ thr[t].pc = "idle"
        /\ Built(w)
        /\ tool[k].cls = "none"
        /\ ~LockHeld(w)
        /\ IF ~speed_asserts(in)
              THEN /\ thr' = [thr EXCEPT ![t].call = cls,
                                         ![t].result = "AssertionError"]
                   /\ UNCHANGED <<win, tool>>
           ELSE IF register_raises(win[w])
              THEN /\ thr' = [thr EXCEPT ![t].call = cls,
                                         ![t].result = "AttachmentError"]
                   /\ UNCHANGED <<win, tool>>
              ELSE /\ thr' = [thr EXCEPT ![t].call = cls, ![t].result = "ok"]
                   /\ win' = [win EXCEPT ![w] = register(@, k)]
                   /\ tool' = [tool EXCEPT ![k] = NewTool(w, cls, in.v)]
        /\ UNCHANGED <<ctx, tk, gh>>

\* Turtle(w), with the default speed.
RegisterTool(t) == ConstructTool(t, "Turtle", [isint |-> TRUE, v |-> 10])

\* tool.speed = in: the setter of Turtle and of Pen checks the value, then
\* calls _set_speed.
SpeedSetter(t, in) ==
    LET k == ToolOf(t)
    IN  /\ tool[k].cls # "none"
        /\ IF speed_asserts(in)
              THEN SetSpeed(t, in.v)
              ELSE /\ Idle(t)
                   /\ StartCall(t, EndCall(BeginCall(thr[t], "speed", k),
                                           "AssertionError"))
                   /\ tool' = tool

\* ------------------------------------------------------------------ Tk thread, step by step
\* Window._tk_update of the next window in single steps.  DrainBegin takes
\* the window's lock, handles a requested clear and fixes the operations the
\* loop of line 922 will execute.
DrainBegin ==
    /\ \/ tk.pc = "idle" /\ ctx.bkgd
       \/ tk.pc = "update"
    /\ TkTodo # << >>
    /\ LET w     == Head(TkTodo)
           C     == tk_clear(win[w])
           batch == tk_update_batch(C.commands, C.refreshed)
       IN  /\ win' = [win EXCEPT ![w] = C]
           /\ tool' = Detach(tool, IF win[w].clear THEN win[w].drawtool ELSE {})
           /\ gh' = [gh EXCEPT
                       !.batch = batch,
                       !.maxout = MaxId(win[w].commands, @),
                       !.fifo = @ /\ Sorted(batch)
                                  /\ (batch = << >> \/ batch[1].id > gh.maxout)]
           /\ tk' = [TkAt("drain", Tail(TkTodo)) EXCEPT !.w = w, !.rest = batch]
    /\ UNCHANGED <<thr, ctx>>

\* The canvas state of window record W.
CanvasOf(W) ==
    [drawtool |-> W.drawtool, icons |-> W.icons, history |-> W.history,
     detach |-> {}]

\* Executing `op` on canvas state `st` raises an exception inside the
\* operation: self._drawtool[key] or self._history[key] for a key that is
\* not registered (KeyError), or hist.pop() on an empty list (IndexError).
Raises(st, op) ==
    \/ op.key \notin st.drawtool
    \/ op.kind = "delete_history" /\ Len(st.history[op.key]) < op.n

\* A variant of Swallowed in which nothing is caught.
Swallowed_nothing(op) == FALSE

\* The exception an operation raises is caught before it leaves
\* Window._tk_internal_execute: by the try block of lines 990-997 for a
\* keyed primitive, by the try block around the whole body of each
\* _tk_internal_* callable otherwise.
Swallowed(op) ==
    \/ op.kind \in Primitives
    \/ op.kind \in {"delete_icon", "draw_icon", "delete_history", "remove_tool"}

\* An exception leaves Window._tk_internal_execute.
Escapes(st, op) == Raises(st, op) /\ ~Swallowed(op)

\* One iteration of the loop of lines 922-923.  An exception that escaped
\* would leave _tk_update, _AsyncContext._tk_update and _poll before the
\* poll is registered again.
DrainOp ==
    /\ tk.pc = "drain"
    /\ tk.rest # << >>
    /\ LET w   == tk.w
           op  == Head(tk.rest)
           st0 == CanvasOf(win[w])
           st1 == tk_internal_execute(st0, op)
       IN  /\ win' = [win EXCEPT ![w].drawtool = st1.drawtool,
                                 ![w].icons = st1.icons,
                                 ![w].history = st1.history]
           /\ tool' = Detach(tool, st1.detach)
           /\ thr' = [t \in Threads |->
                        IF thr[t].pid = op.id
                            THEN [thr[t] EXCEPT !.pdone = @ + 1] ELSE thr[t]]
           /\ tk' = IF Escapes(st0, op) THEN TkAt("dead", << >>)
                    ELSE [tk EXCEPT !.rest = Tail(@),
                                    !.raised = @ + (IF Raises(st0, op) THEN 1 ELSE 0)]
    /\ UNCHANGED <<ctx, gh>>

\* Lines 924-927: the loop is over, the queue is cleared and every record
\* of self._adjusts is applied (the lock is still held).
DrainEnd ==
    /\ tk.pc = "drain"
    /\ tk.rest = << >>
    /\ win' = [win EXCEPT ![tk.w].refreshed = FALSE, ![tk.w].commands = << >>]
    /\ tk' = [tk EXCEPT !.pc = "adjusted", !.nadj = Len(win[tk.w].adjusts)]
    /\ UNCHANGED <<tool, thr, ctx, gh>>

\* Line 928: self._adjusts.clear(), then the lock is released.
AdjustClear ==
    /\ tk.pc = "adjusted"
    /\ win' = [win EXCEPT ![tk.w].adjusts = << >>]
    /\ tk' = TkAt("update", tk.todo)
    /\ UNCHANGED <<tool, thr, ctx, gh>>

\* ------------------------------------------------------------------ specifications
\* The state after Window(), Turtle(w, speed = s1) or Pen(w, speed = s1)
\* (tool k1, of class c1) and Pen(w) (tool k2): nothing queued yet.
Constructed(c1, s1) ==
    /\ win = [w \in AllWindows |->
                IF w = "w1" THEN register(register(NewWindow, "k1"), "k2")
                            ELSE NoWindow]
    /\ tool = [k \in Tools |-> IF k = "k1" THEN NewTool("w1", c1, s1)
                                            ELSE NewTool("w1", "Pen", 10)]
    /\ thr = [t \in Threads |-> IdleThread]
    /\ ctx = NewContext(<<"w1">>)
    /\ tk = NewTk
    /\ gh = NewGhost

\* The steps of a push, of the main thread and of the Tk thread.
PushSteps(T) ==
    \/ \E t \in T : Check(t)
    \/ \E t \in T : QueueAppend(t)
    \/ \E t \in T : FlushStep(t)
    \/ \E t \in T : PollExit(t)

TkSteps ==
    \/ TkQuit
    \/ TkWindowUpdate
    \/ TkFinish

WindowCalls ==
    \/ \E w \in Windows : WinFlush(w)
    \/ \E w \in Windows : WinClear(w)
    \/ \E w \in Windows : WinDispose(w)

\* Spec: two application threads push to the window directly while the
\* main thread flushes, clears, adjusts and disposes it and the Tk thread
\* ticks.
Init == Constructed("Turtle", 10)

Next ==
    \/ \E t \in Threads : \E in \in DirectInputs(t) : DirectPush(t, in)
    \/ PushSteps(Threads)
    \/ WindowCalls
    \/ TkSteps

Spec == Init /\ [][Next]_vars

\* SpecTool: one application thread drives its tool (a Turtle or a Pen
\* constructed with any of the speeds) through the public methods.
InitTool == \E c \in {"Turtle", "Pen"}, s \in Speeds : Constructed(c, s)

ToolCalls(t) ==
    \/ \E d \in Dists : Forward(t, d)
    \/ \E d \in Dists : Backward(t, d)
    \/ \E d \in Dists : DrawLine(t, d)
    \/ \E d \in Dists : Move(t, d)
    \/ Left(t, 0)
    \/ SetColor(t)
    \/ \E v \in BOOLEAN : SetVisible(t, v)
    \/ \E v \in BOOLEAN : SetDrawmode(t, v)
    \/ \E s \in Speeds : SetSpeed(t, s)
    \/ Flush(t)
    \/ Clear(t)

NextTool ==
    \/ ToolCalls("t1")
    \/ PushSteps({"t1"})
    \/ WFlush("t1")
    \/ WindowCalls
    \/ \E w \in Windows : WinSet(w, "x")
    \/ TkSteps

SpecTool == InitTool /\ [][NextTool]_vars

\* SpecLine: one tool (a Turtle or a Pen, at any speed) animates lines and
\* ovals on a window that stays open.
InitLine == \E c \in {"Turtle", "Pen"}, s \in LineSpeeds : Constructed(c, s)

\* The distances offered to a tool at its speed.
Short(d) ==
    /\ gh.calls < MaxLineCalls
    /\ stepcnt(tool["k1"].speed, d) <= MaxSteps

\* The speeds at which an oval is offered.
ShortOval ==
    /\ gh.calls < MaxLineCalls
    /\ IF arc_perstep(tool["k1"].speed) < 0 THEN TRUE
       ELSE Ceil(OvalExtent, arc_perstep(tool["k1"].speed)) <= MaxSteps

NextLine ==
    \/ \E d \in LineDists : Short(d) /\ Forward("t1", d)
    \/ \E d \in LineDists : Short(d) /\ Backward("t1", d)
    \/ \E d \in LineDists : Short(d) /\ DrawLine("t1", d)
    \/ ShortOval /\ DrawOval("t1")
    \/ PushSteps({"t1"})
    \/ TkWindowUpdate
    \/ TkFinish

SpecLine == InitLine /\ [][NextLine]_vars

\* SpecLock: two windows, each with one tool driven by its own thread,
\* while the main thread flushes, clears and adjusts them and the Tk thread runs
\* Window._tk_update step by step.
InitLock ==
    /\ win = [w \in AllWindows |->
                register(NewWindow, IF w = "w1" THEN "k1" ELSE "k2")]
    /\ tool = [k \in Tools |-> IF k = "k1" THEN NewTool("w1", "Pen", 10)
                                            ELSE NewTool("w2", "Pen", 10)]
    /\ thr = [t \in Threads |-> IdleThread]
    /\ ctx = NewContext(<<"w1", "w2">>)
    /\ tk = NewTk
    /\ gh = NewGhost

\* The direct pushes of SpecLock: a non-blocking line that rolls one history
\* entry back and a blocking icon update.
LockInputs ==
    { [kind |-> "line", icon |-> TRUE, block |-> FALSE, rb |-> 1, noicon |-> FALSE],
      [kind |-> "icon", icon |-> TRUE, block |-> TRUE,  rb |-> 0, noicon |-> FALSE] }

NextLock ==
    \/ \E t \in Threads : \E in \in LockInputs : DirectPush(t, in)
    \/ PushSteps(Threads)
    \/ \E w \in AllWindows : WinFlush(w)
    \/ \E w \in AllWindows : WinClear(w)
    \/ \E w \in AllWindows : WinSet(w, "x")
    \/ DrainBegin
    \/ DrainOp
    \/ DrainEnd
    \/ AdjustClear
    \/ TkFinish

SpecLock == InitLock /\ [][NextLock]_vars

\* SpecCtx: two application threads construct one window each, attach a
\* tool, dispose the windows (each possibly twice) and drop their
\* references to them while the workers of the context tick.
InitCtx ==
    /\ win = [w \in AllWindows |-> NoWindow]
    /\ tool = [k \in Tools |-> NoTool]
    /\ thr = [t \in Threads |-> IdleThread]
    /\ ctx = NoContext
    /\ tk = TkAt("stopped", << >>)
    /\ gh = NewGhost

NextCtx ==
    \/ \E t \in Threads : Construct(t)
    \/ \E t \in Threads : InstanceCreate(t)
    \/ \E t \in Threads : InstanceReturn(t)
    \/ \E t \in Threads : AllocRead(t)
    \/ \E t \in Threads : Spawn(t)
    \/ \E t \in Threads : CreateAppend(t)
    \/ \E t \in Threads : AllocWait(t)
    \/ \E t \in Threads : RegisterTool(t)
    \/ \E w \in AllWindows : Built(w) /\ ~Split /\ WinDispose(w)
    \/ \E w \in AllWindows : ~Split /\ DropRef(w)
    \/ TkSteps
    \/ TkPackActive
    \/ TkPackRegister
    \/ LingerQuit

SpecCtx == InitCtx /\ [][NextCtx]_vars

\* The steps of thread t inside Window(): Instance() and alloc.
AllocSteps(t) ==
    \/ InstanceCreate(t)
    \/ InstanceReturn(t)
    \/ AllocRead(t)
    \/ Spawn(t)
    \/ CreateAppend(t)
    \/ AllocWait(t)

\* The steps of the workers: _TK_Thread.run polls until it is stopped.
WorkerSteps ==
    \/ TkSteps
    \/ TkPackActive
    \/ TkPackRegister
    \/ LingerQuit

\* SpecCtxLive: SpecCtx with the scheduling of the program.  A worker that
\* can take a step takes one (the poll loop of _TK_Thread.run never
\* pauses for good), and a thread inside Window() gets the context's lock
\* whenever it is free again and again: the worker sleeps between two
\* ticks with the lock released.
SpecCtxLive ==
    /\ InitCtx
    /\ [][NextCtx]_vars
    /\ WF_vars(WorkerSteps)
    /\ \A t \in Threads : SF_vars(AllocSteps(t))

\* SpecSpeed: one thread constructs a Turtle or a Pen on an open window
\* with any of the speed arguments and assigns its speed.
InitSpeed ==
    /\ win = [w \in AllWindows |-> IF w = "w1" THEN NewWindow ELSE NoWindow]
    /\ tool = [k \in Tools |-> NoTool]
    /\ thr = [t \in Threads |-> IdleThread]
    /\ ctx = NewContext(<<"w1">>)
    /\ tk = NewTk
    /\ gh = NewGhost

NextSpeed ==
    \/ \E c \in {"Turtle", "Pen"}, in \in SpeedInputs : ConstructTool("t1", c, in)
    \/ \E in \in SpeedInputs : SpeedSetter("t1", in)
    \/ PushSteps({"t1"})
    \/ WFlush("t1")
    \/ TkWindowUpdate
    \/ TkFinish

SpecSpeed == InitSpeed /\ [][NextSpeed]_vars

\* SpecUnreg: two threads draw on one window with their tools and
\* unregister them while the main thread flushes the window and the Tk
\* thread ticks.
InitUnreg == Constructed("Pen", 10)

NextUnreg ==
    \/ \E t \in Threads : \E in \in DirectInputs(t) : DirectPush(t, in)
    \/ \E t \in Threads : Unregister(t)
    \/ PushSteps(Threads)
    \/ \E w \in Windows : WinFlush(w)
    \/ TkWindowUpdate
    \/ TkFinish

SpecUnreg == InitUnreg /\ [][NextUnreg]_vars

\* SpecReset: a tool (a Turtle or a Pen, at speed 0, 5 or 10) draws and is
\* reset while the window is flushed and the Tk thread ticks.
InitReset == \E c \in {"Turtle", "Pen"}, s \in {0, 5, 10} : Constructed(c, s)

NextReset ==
    \/ Reset("t1")
    \/ Forward("t1", 16)
    \/ DrawLine("t1", 16)
    \/ PushSteps({"t1"})
    \/ WinFlush("w1")
    \/ TkWindowUpdate
    \/ TkFinish

SpecReset == InitReset /\ [][NextReset]_vars

\* SpecFrame: a tool is moved, turned, hidden, slowed down and reset by
\* its thread while the main thread flushes, clears and disposes the window
\* and the Tk thread ticks.
InitFrame == \E c \in {"Turtle", "Pen"}, s \in {0, 5} : Constructed(c, s)

NextFrame ==
    \/ Move("t1", 16)
    \/ Left("t1", 90)
    \/ SetVisible("t1", FALSE)
    \/ SetSpeed("t1", 10)
    \/ Reset("t1")
    \/ PushSteps({"t1"})
    \/ WindowCalls
    \/ TkSteps

SpecFrame == InitFrame /\ [][NextFrame]_vars

\* The x coordinates offered to Pen.move and the vertices of a fill in
\* progress.
FillPoints == <<0, 10, 20>>

\* SpecFill: a pen, hollow or in the middle of a fill of up to two lines
\* drawn from the origin, is moved, draws and switches `solid`.
InitFill ==
    \E s \in {0, 10}, n \in 0 .. Len(FillPoints) :
        /\ win = [w \in AllWindows |->
                    IF w = "w1"
                        THEN [register(register(NewWindow, "k1"), "k2")
                                 EXCEPT !.history["k1"] =
                                     [i \in 1 .. Max(n, 1) - 1 |-> "create_line"]]
                        ELSE NoWindow]
        /\ tool = [k \in Tools |->
                     IF k = "k1"
                         THEN [NewTool("w1", "Pen", s) EXCEPT
                                  !.solid = n > 0,
                                  !.shist = SubSeq(FillPoints, 1, n),
                                  !.x = IF n > 0 THEN FillPoints[n] ELSE 0]
                         ELSE NewTool("w1", "Pen", 10)]
        /\ thr = [t \in Threads |-> IdleThread]
        /\ ctx = NewContext(<<"w1">>)
        /\ tk = NewTk
        /\ gh = NewGhost

NextFill ==
    \/ \E x1 \in SeqRange(FillPoints) : Move("t1", x1)
    \/ \E b \in BOOLEAN : SetSolid("t1", b)
    \/ DrawLine("t1", 10)
    \/ PushSteps({"t1"})
    \/ WinFlush("w1")
    \/ TkWindowUpdate
    \/ TkFinish

SpecFill == InitFill /\ [][NextFill]_vars

\* ------------------------------------------------------------------ properties
\* Thread t is inside a push.
InFlight(t) == thr[t].pc \in {"check", "append", "flush", "poll"}

\* The step in which thread t enters a public method of its tool.
CallStep(t) == thr[t].pc = "idle" /\ thr'[t] # thr[t]

\* The step in which the attachment check of t's push runs, and its raising
\* AttachmentError.
CheckStep(t) == thr[t].pc = "check" /\ thr'[t].pc # "check"
Raised(t) == thr'[t].pc = "idle" /\ thr'[t].result = "AttachmentError"

\* The step in which t's blocking push leaves its poll loop and returns.
ReturnStep(t) == thr[t].pc = "poll" /\ thr'[t].pc # "poll"

\* The public methods of a tool that draw or redraw.
DrawingMethods ==
    {"forward", "backward", "left", "color", "visible", "move", "drawLine",
     "drawOval", "flush", "clear"}

\* C1 (as stated): once the disposal of its window has been processed,
\* every public drawing method of a tool raises AttachmentError: the call
\* ends at once, with that exception and no other, and never silently.
C1_DetachedToolRaises ==
    [][\A t \in Threads :
          (/\ CallStep(t)
           /\ ~win[Home(ToolOf(t))].tkwindow
           /\ thr'[t].call \in DrawingMethods)
          => (thr'[t].pc = "idle" /\ thr'[t].result = "AttachmentError")]_vars

\* The tool of t's push has not been taken out of the registry by a clear.
ToolKept(t) == tool[thr[t].pkey].window # None \/ ~win[thr[t].pw].tkwindow

\* C2 (as stated): a push issued after Window.dispose() has been called
\* raises AttachmentError, and a push issued before that call does not.
C2_RaisesOnceDisposeCalled ==
    [][\A t \in Threads :
          (CheckStep(t) /\ ToolKept(t)) => (Raised(t) <=> thr[t].pafter)]_vars

\* C2 (amended): a push whose attachment check runs after the run loop has
\* processed the window's disposal raises AttachmentError; a push whose
\* check runs before that, on a tool still registered, does not raise,
\* whether or not dispose() has already been called.
C2_RaisesOnceDisposalProcessed ==
    [][\A t \in Threads :
          CheckStep(t) =>
              /\ ~win[thr[t].pw].tkwindow => Raised(t)
              /\ (win[thr[t].pw].tkwindow /\ tool[thr[t].pkey].window # None)
                    => ~Raised(t)]_vars

\* One push has raised after the disposal was processed while another one,
\* issued after dispose() was called, had passed its check before.
C2_Witness ==
    /\ ~win["w1"].tkwindow
    /\ thr["t1"].call = "push" /\ thr["t1"].result = "AttachmentError"
    /\ InFlight("t2") /\ thr["t2"].pc # "check" /\ thr["t2"].pafter

\* C3 (as stated): a blocking push that is in flight when its window is
\* disposed returns with the detached-tool error.
C3_DisposedPushRaises ==
    [][\A t \in Threads :
          (ReturnStep(t) /\ ~win[thr[t].pw].tkwindow)
          => thr'[t].result = "AttachmentError"]_vars

\* Window w has been neither cleared nor disposed and still holds tool k.
Untouched(w, k) ==
    /\ win[w].tkwindow
    /\ ~DisposeCalled(w)
    /\ ~win[w].clear
    /\ k \in win[w].drawtool

\* C4 (as stated): when a blocking push on a window neither cleared nor
\* disposed returns, a drain has executed every operation of that push.
C4_ReturnedPushExecuted ==
    [][\A t \in Threads :
          (ReturnStep(t) /\ Untouched(thr[t].pw, thr[t].pkey))
          => thr[t].pdone = thr[t].pof]_vars

\* s is a prefix of r.
IsPrefix(s, r) == Len(s) <= Len(r) /\ SubSeq(r, 1, Len(s)) = s

\* The queue of w holds a draw command of a speed-0 tool whose thread has
\* returned from the push, and flush() has not been called since.
QueuedUnflushed(w) ==
    /\ win[w].tkwindow
    /\ ~DisposeCalled(w)
    /\ ~win[w].clear
    /\ ~win[w].refreshed
    /\ \E j \in 1 .. Len(win[w].commands), t \in Threads :
          /\ win[w].commands[j].kind \in Primitives
          /\ win[w].commands[j].key = ToolOf(t)
          /\ tool[ToolOf(t)].speed = 0
          /\ thr[t].pc = "idle"

\* C5 (as stated): the draw commands pushed at speed 0 stay queued, across
\* ticks and property changes, until flush() is called.
C5_QueuedUntilFlush ==
    [][\A w \in Windows :
          QueuedUnflushed(w) => IsPrefix(win[w].commands, win'[w].commands)]_vars

\* C6 (as stated): at speed 0 in draw mode every forward / backward of an
\* attached turtle makes exactly one push.
C6_OnePushPerMove ==
    \A t \in Threads :
        (/\ thr[t].pc = "idle"
         /\ thr[t].call \in {"forward", "backward"}
         /\ thr[t].cspeed = 0
         /\ tool[ToolOf(t)].isdown
         /\ tool[ToolOf(t)].window # None)
        => (thr[t].result = "ok" /\ thr[t].npush = 1)

\* The methods that animate one straight line of length thr[t].len > 0.
LineCalls == {"forward", "backward", "drawLine"}

\* The last push of a line ends at the target point Q.
LastPushEndsAtTarget ==
    \A t \in Threads :
        (InFlight(t) /\ thr[t].phase = "line" /\ thr[t].step = thr[t].stepcnt - 1)
        => thr[t].pend = thr[t].target

\* C7 (as stated): for a line of length L > 0 at speed s in 1..10 the
\* animation issues exactly ceil(L / 2^(s-1)) pushes, the last one ends at
\* Q and the tool's final position is Q.
C7_PushCountAllSpeeds ==
    /\ LastPushEndsAtTarget
    /\ \A t \in Threads :
          (thr[t].pc = "idle" /\ thr[t].call \in LineCalls /\ thr[t].cspeed \in 1 .. 10)
          => /\ thr[t].result = "ok"
             /\ thr[t].npush = Ceil(thr[t].len, Pow2(thr[t].cspeed - 1))
             /\ tool[ToolOf(t)].x = thr[t].target

\* C7 (amended): for a line of length L > 0 the animation issues exactly
\* ceil(L / 2^(s-1)) pushes at speed s in 1..9 and exactly one push at
\* speed 10; the last push ends at Q and the tool's final position is Q.
C7_PushCount ==
    /\ LastPushEndsAtTarget
    /\ \A t \in Threads :
          (thr[t].pc = "idle" /\ thr[t].call \in LineCalls /\ thr[t].cspeed \in 1 .. 10)
          => /\ thr[t].result = "ok"
             /\ thr[t].cspeed \in 1 .. 9 =>
                    thr[t].npush = Ceil(thr[t].len, Pow2(thr[t].cspeed - 1))
             /\ thr[t].cspeed = 10 => thr[t].npush = 1
             /\ tool[ToolOf(t)].x = thr[t].target

\* forward(100) at speed 5 has returned after 7 pushes, at (100, 0).
C7_Witness ==
    /\ thr["t1"].pc = "idle" /\ thr["t1"].call = "forward"
    /\ thr["t1"].cspeed = 5 /\ thr["t1"].len = 100
    /\ thr["t1"].npush = 7 /\ tool["k1"].x = 100

\* C8: in a line or arc animation the push of step 0 carries rollback 0
\* and the push of every later step carries rollback 1.
C8_Rollback ==
    \A t \in Threads :
        (InFlight(t) /\ thr[t].phase \in {"line", "arc"})
        => thr[t].prb = (IF thr[t].step = 0 THEN 0 ELSE 1)

\* The third step of a line is being pushed, with rollback 1.
C8_Witness ==
    \E t \in Threads :
        /\ thr[t].pc = "poll" /\ thr[t].phase = "line"
        /\ thr[t].step = 2 /\ thr[t].prb = 1

\* The place of an operation in the order of one push.
Rank(kind) ==
    CASE kind = "delete_icon"    -> 1
      [] kind = "delete_history" -> 2
      [] kind \in Primitives     -> 3
      [] kind = "draw_icon"      -> 4
      [] OTHER                   -> 5

\* The operations of every push lie next to each other, complete, in the
\* order delete-old-icon, rollback, primitive, draw-new-icon.
Grouped(cmds) ==
    \A j \in 1 .. Len(cmds) :
        /\ cmds[j].i \in 1 .. cmds[j].of
        /\ cmds[j].i > 1 =>
              /\ j > 1
              /\ cmds[j - 1].id = cmds[j].id
              /\ cmds[j - 1].i = cmds[j].i - 1
              /\ Rank(cmds[j - 1].kind) < Rank(cmds[j].kind)
        /\ cmds[j].i < cmds[j].of =>
              /\ j < Len(cmds)
              /\ cmds[j + 1].id = cmds[j].id
              /\ cmds[j + 1].i = cmds[j].i + 1

\* C9: every push appends its operations as one contiguous group in the
\* order delete-old-icon, rollback, primitive, draw-new-icon; the groups of
\* different pushes never interleave, in the queue or in a drained batch.
C9_ContiguousGroups ==
    /\ \A w \in Windows : Grouped(win[w].commands)
    /\ Grouped(gh.batch)

\* Two pushes of different threads are queued, each of several operations.
C9_Witness ==
    \E w \in Windows :
        LET c == win[w].commands
        IN  /\ Len(c) >= 4
            /\ c[1].of >= 2 /\ c[Len(c)].of >= 2
            /\ c[1].key # c[Len(c)].key

\* Every push with an operation in cmds has all its operations there.
Whole(cmds) ==
    \A j \in 1 .. Len(cmds) :
        CountOf(cmds, cmds[j].id) = cmds[j].of

\* C10: the pushes are executed in the order they were appended, and a
\* drain takes all the operations of a push or none of them.
C10_FifoWholePushes ==
    /\ gh.fifo
    /\ Sorted(gh.batch)
    /\ Whole(gh.batch)
    /\ \A w \in Windows : IdsOf(win[w].commands) \cap IdsOf(gh.batch) = {}

\* A drain has executed two pushes in one batch.
C10_Witness ==
    /\ Len(gh.batch) >= 3
    /\ gh.batch[1].id < gh.batch[Len(gh.batch)].id

\* The Tk thread is executing the queued operations of window w (it is
\* inside the loop of lines 922-923 with operations still to execute).
Draining(w) == tk.pc = "drain" /\ tk.w = w /\ tk.rest # << >>

\* C11: while a drain executes a queued operation of a window, a push on
\* the same window that has reached its append can take the lock and
\* append.
C11_PushDuringDrain ==
    \A t \in Threads :
        (thr[t].pc = "append" /\ Draining(thr[t].pw)) => ENABLED QueueAppend(t)

\* C11 (as the program behaves): the lock of a window is held for the whole
\* of its _tk_update, so while a drain executes the queued operations of a
\* window (and until it has cleared the adjustments) a push on the same
\* window cannot append: it waits for the lock.
C11_PushWaitsForDrain ==
    \A t \in Threads :
        (thr[t].pc = "append" /\ tk.pc \in {"drain", "adjusted"}
                              /\ tk.w = thr[t].pw)
            => ~ENABLED QueueAppend(t)

\* A push has reached its append on the window whose operations the Tk
\* thread is executing, and cannot proceed.
C11_Witness ==
    /\ Draining("w1")
    /\ thr["t1"].pc = "append" /\ thr["t1"].pw = "w1"
    /\ ~ENABLED QueueAppend("t1")

\* C12: a second Window.dispose() on a window is harmless: no tick of the
\* run loop raises, so the polling never ends.
C12_SecondDisposeHarmless == tk.pc # "dead"

\* The disposal of window w has been processed (Window._tk_dispose has run
\* on the constructed window).
Disposed(w) == win[w].active /\ ~win[w].tkwindow

\* Thread t's step is a call of Turtle(w) on the window it constructed.
RegisterStep(t) == thr[t].call = "Window" /\ thr'[t].call = "Turtle"

\* C13: a window whose disposal has been processed stays disposed: no step
\* gives it a toolkit window again, it is in no list of windows the Tk
\* thread updates, no tool enters its registry, and a tool constructor
\* called on it raises AttachmentError.
C13_DisposedForever ==
    [][\A w \in AllWindows :
          Disposed(w) =>
              /\ win'[w].active /\ ~win'[w].tkwindow
              /\ w \notin SeqRange(ctx'.window)
              /\ w \notin SeqRange(tk'.todo)
              /\ tk'.w # w
              /\ win'[w].drawtool = {}
              /\ \A t \in Threads :
                    (WindowOf(t) = w /\ RegisterStep(t)) =>
                        /\ thr'[t].result = "AttachmentError"
                        /\ tool'[ToolOf(t)].cls = "none"]_vars

\* A tool constructor has been called on a disposed window and has raised.
C13_Witness ==
    \E t \in Threads :
        /\ Disposed(WindowOf(t))
        /\ thr[t].call = "Turtle"
        /\ thr[t].result = "AttachmentError"

\* Thread t's step is the return of Window().
WindowReturns(t) == thr[t].pc = "wait" /\ thr'[t].pc = "idle"

\* A worker thread comes into existence only in a step of a thread that is
\* inside _AsyncContext.alloc.
WorkerOnlyFromAlloc ==
    Workers' > Workers => \E t \in Threads : thr[t].pc = "spawn"

\* C14 (as stated): when Window() returns, the window is active, its
\* toolkit window exists and it is registered in the context's map; and a
\* worker is only ever started by an allocation.
C14_RegisteredOnReturn ==
    [][/\ \A t \in Threads :
            WindowReturns(t) =>
                /\ win'[WindowOf(t)].active
                /\ win'[WindowOf(t)].tkwindow
                /\ WindowOf(t) \in SeqRange(ctx'.window)
       /\ WorkerOnlyFromAlloc]_vars

\* C14 (as the program behaves): when Window() returns, the window is
\* active and its toolkit window exists; it is registered in the context's
\* map, or the Tk thread is between the two last assignments of _pack for
\* this window and registers it before it releases the context's lock; and
\* a worker is only ever started by an allocation.
C14_ConstructedOnReturn ==
    [][/\ \A t \in Threads :
            WindowReturns(t) =>
                /\ win'[WindowOf(t)].active
                /\ win'[WindowOf(t)].tkwindow
                /\ \/ WindowOf(t) \in SeqRange(ctx'.window)
                   \/ tk'.pc = "packed" /\ Head(ctx'.create) = WindowOf(t)
       /\ WorkerOnlyFromAlloc]_vars

\* Window() has returned while the Tk thread has set the window active but
\* not yet stored it in the context's map.
C14_Witness ==
    \E t \in Threads :
        /\ thr[t].pc = "idle" /\ thr[t].call = "Window" /\ thr[t].result = "ok"
        /\ tk.pc = "packed"
        /\ Head(ctx.create) = WindowOf(t)
        /\ win[WindowOf(t)].tkwindow

\* No window is allocated, requested or under construction.
NoWindowWanted ==
    /\ ctx.window = << >>
    /\ ctx.create = << >>
    /\ \A t \in Threads : thr[t].pc = "idle"

\* C15: between two ticks, once the last window has been deallocated (and
\* none is requested) the worker has been stopped; and the worker is not
\* stopped while a window is allocated.
C15_WorkerStoppedWithLastWindow ==
    /\ (tk.pc \in {"idle", "dead", "stopped"} /\ NoWindowWanted
            /\ \E w \in AllWindows : Disposed(w))
          => ~ctx.bkgd
    /\ ~ctx.bkgd => ctx.window = << >>

\* C16: at most one worker thread and at most one context object exist.
C16_OneWorkerOneContext ==
    /\ Workers <= 1
    /\ ctx.inst <= 1

\* C20: the speed of every constructed tool is in 0..10, and a call that
\* is given a speed outside 0..10 raises and leaves the tool as it was.
C20_SpeedInRange ==
    \A k \in Tools : tool[k].cls # "none" => tool[k].speed \in 0 .. 10

\* The Tk thread is about to execute an operation that raises.
AtRaisingOp ==
    /\ tk.pc = "drain"
    /\ tk.rest # << >>
    /\ Raises(CanvasOf(win[tk.w]), Head(tk.rest))

\* C17: when the operation a drain executes raises, the Tk thread's step
\* stays inside the drain with exactly the remaining operations still to
\* execute, in their order; and no step ends the polling.
C17_RaisingOpSwallowed ==
    [][/\ (AtRaisingOp /\ tk' # tk) =>
              (tk'.pc = "drain" /\ tk'.rest = Tail(tk.rest))
       /\ tk'.pc # "dead"]_vars

\* An operation of the drain in progress has raised (the rollback of a
\* line on an empty history) and a later operation of the same drain has
\* drawn its primitive.
C17_Witness ==
    /\ tk.pc \in {"drain", "adjusted"}
    /\ tk.raised > 0
    /\ \E k \in Tools : win[tk.w].history[k] # << >>

\* C19: a step appends at most one adjustment record to a window, and the
\* records a step removes from a window's list are exactly the records the
\* drain in progress has applied (none is removed unapplied).
C19_AdjustsAppliedOnce ==
    [][\A w \in AllWindows :
          /\ Len(win'[w].adjusts) <= Len(win[w].adjusts) + 1
          /\ Len(win'[w].adjusts) < Len(win[w].adjusts) =>
                 /\ tk.pc = "adjusted" /\ tk.w = w
                 /\ win'[w].adjusts = << >>
                 /\ tk.nadj = Len(win[w].adjusts)]_vars

\* C24: the Tk thread never asks for a lock it holds itself: no deletion
\* of a window from the context's map runs Window.__del__ (and through it
\* dealloc) inside the lock block of _AsyncContext._tk_update.
C24_NoSelfDeadlock == tk.pc # "deadlock"

\* A thread is inside a lock block of a push on window w, or about to
\* enter one.
Pushing(t, w) == thr[t].pc \in {"check", "append"} /\ thr[t].pw = w

\* C18: a push on one window can take that window's lock and proceed
\* whenever the Tk thread is not inside the _tk_update of that very window,
\* whatever the Tk thread does to the other window and whatever the other
\* thread waits for.
C18_WindowsIndependent ==
    \A t \in Threads : \A w \in AllWindows :
        (Pushing(t, w) /\ tk.w # w) =>
            /\ thr[t].pc = "check"  => ENABLED Check(t)
            /\ thr[t].pc = "append" => ENABLED QueueAppend(t)

\* A push on w2 is ready to append while the Tk thread executes the
\* operations of w1 and the other thread's blocking push waits on w1.
C18_Witness ==
    /\ Draining("w1")
    /\ thr["t1"].pc = "poll" /\ thr["t1"].pw = "w1"
    /\ Pushing("t2", "w2") /\ thr["t2"].pc = "append"
    /\ ENABLED QueueAppend("t2")

\* The step in which a drain carries out a requested clear of window w.
ClearDrained(w) == win[w].clear /\ ~win'[w].clear

\* Tool k has been taken out of its window by a clear: it is detached and
\* the window is still open.
ClearedAway(k) == tool[k].window = None /\ win[Home(k)].tkwindow

\* The drain of a clear empties the registry and every history, detaches
\* every tool that was registered and leaves the window open.
ClearDrainEffect ==
    \A w \in Windows :
        ClearDrained(w) =>
            /\ win'[w].drawtool = {}
            /\ win'[w].icons = {}
            /\ \A k \in Tools : win'[w].history[k] = << >>
            /\ \A k \in win[w].drawtool : tool'[k].window = None
            /\ win'[w].tkwindow = win[w].tkwindow
            /\ win'[w].active = win[w].active

\* C21: the drain of Window.clear() empties the registry and the
\* histories, detaches the registered tools and leaves the window open;
\* from then on every drawing call of a tool it detached raises
\* AttachmentError.
C21_ClearDetachesTools ==
    [][/\ ClearDrainEffect
       /\ \A t \in Threads :
             (/\ CallStep(t)
              /\ ClearedAway(ToolOf(t))
              /\ thr'[t].call \in DrawingMethods)
             => Raised(t)]_vars

\* The step is a drain of window w that executes its queue (the window
\* had been flushed) and carries out no clear.
FlushedDrain(w) ==
    /\ win[w].refreshed /\ ~win'[w].refreshed
    /\ ~win[w].clear

\* Thread t's latest call is a clear() of its tool that has returned
\* normally.
ClearReturned(t) ==
    thr[t].pc = "idle" /\ thr[t].call = "clear" /\ thr[t].result = "ok"

\* C22: clear() leaves the tool as it is, and once clear() has returned,
\* a drain of the flushed window leaves the tool registered with an empty
\* history.
C22_ClearEmptiesHistory ==
    [][\A t \in Threads :
          /\ (CallStep(t) /\ thr'[t].call = "clear") => tool' = tool
          /\ \A w \in Windows :
                (/\ ClearReturned(t) /\ thr'[t] = thr[t]
                 /\ FlushedDrain(w)
                 /\ ToolOf(t) \in win[w].drawtool
                 /\ ~DisposeCalled(w))
                => /\ ToolOf(t) \in win'[w].drawtool
                   /\ win'[w].history[ToolOf(t)] = << >>]_vars

\* The queue of window w holds the removal of tool k.
RemovalQueued(w, k) ==
    \E j \in 1 .. Len(win[w].commands) :
        win[w].commands[j].kind = "remove_tool" /\ win[w].commands[j].key = k

\* The step is a drain of window w (its queue is emptied).
DrainStep(w) == win[w].commands # << >> /\ win'[w].commands = << >>

\* C23: while the removal of a registered tool is queued, the tool stays
\* registered until the next drain, and that drain deletes its primitives
\* and its icon, removes it from the registry and detaches it.
C23_UnregisterOnNextDrain ==
    [][\A w \in Windows : \A k \in Tools :
          (RemovalQueued(w, k) /\ k \in win[w].drawtool) =>
              IF DrainStep(w)
                  THEN /\ k \notin win'[w].drawtool
                       /\ k \notin win'[w].icons
                       /\ win'[w].history[k] = << >>
                       /\ tool'[k].window = None
                  ELSE k \in win'[w].drawtool]_vars

\* The extent of one step of an arc of extent E at speed s, as stated: a
\* power of two for the speeds 1..9 and the whole extent for 0 and 10.
StatedArcStep(s, E) == IF s \in {0, 10} THEN E ELSE Pow2(s - 1)

\* C25: at every speed Pen.drawOval animates its arc of extent E in
\* ceil(E / perstep) pushes, the k-th of extent min(k * perstep, E) and the
\* last of extent E, where perstep is 2^(s-1) for the speeds 1..9 and E for
\* the speeds 0 and 10; the call does not fail on the way.
C25_ArcPushes ==
    \A t \in Threads :
        thr[t].call = "drawOval" =>
            LET th  == thr[t]
                per == StatedArcStep(th.cspeed, OvalExtent)
            IN  /\ th.result # "NameError"
                /\ (InFlight(t) /\ th.phase = "arc") =>
                       /\ th.stepcnt = Ceil(OvalExtent, per)
                       /\ th.pend = Min((th.step + 1) * per, OvalExtent)
                       /\ (th.step = th.stepcnt - 1 => th.pend = OvalExtent)

\* C26: after Pen.move(x, y) on a solid pen has returned, the fill region
\* in progress starts at (x, y): its only vertex is the position the pen
\* was moved to, not the position it had before the call.
C26_MoveStartsFillAtTarget ==
    \A t \in Threads :
        LET k == ToolOf(t)
        IN  (thr[t].pc = "idle" /\ thr[t].call = "move" /\ thr[t].result = "ok"
             /\ tool[k].cls = "Pen" /\ tool[k].solid)
            => tool[k].shist = <<tool[k].x>>

\* C27: reset() on an attached tool returns normally and leaves the tool at
\* the origin with speed 10, visible (a Turtle with heading 0) and still
\* registered, and leaves every other tool as it was.
C27_ResetReturns ==
    \A t \in Threads :
        LET k == ToolOf(t)
        IN  (thr[t].pc = "idle" /\ thr[t].call = "reset"
             /\ thr[t].result \notin {"AttributeError", "AttachmentError"})
            => /\ thr[t].result = "ok"
               /\ tool[k].x = 0 /\ tool[k].speed = 10 /\ tool[k].visible
               /\ (tool[k].cls = "Turtle" => tool[k].heading = 0)
               /\ k \in win[Home(k)].drawtool
               /\ \A j \in Tools \ {k} : tool[j] = NewTool("w1", "Pen", 10)

\* The attributes of tool k that its methods set (the colours are not part
\* of the model).
Attributes(k) == <<tool[k].x, tool[k].heading, tool[k].visible, tool[k].speed>>

C29_AllocReturns ==
    \A t \in Threads :
        (thr[t].call = "Window" /\ thr[t].pc # "idle")
            ~> (thr[t].pc = "idle" \/ Split)

\* C30: when a one-segment line animation of n >= 1 blocking steps has
\* returned and the queue of the tool's window is empty, the tool's history
\* is its history before the call (empty here) plus one primitive, the
\* whole line: every rollback has removed the previous step's partial line
\* and nothing else.
C30_SegmentLeavesOneLine ==
    \A t \in Threads :
        LET k == ToolOf(t)
        IN  (/\ thr[t].pc = "idle" /\ thr[t].result = "ok"
             /\ thr[t].call \in {"forward", "backward", "drawLine"}
             /\ thr[t].cspeed > 0 /\ thr[t].npush >= 1
             /\ gh.calls = 1
             /\ k \in win[Home(k)].drawtool
             /\ win[Home(k)].commands = << >>)
            => win[Home(k)].history[k] = <<"create_line">>

====
